---------------------------- MODULE Spec2Model ----------------------------
(***************************************************************************)
(* Storage layer of the exam-wishes board (src/app.py): the spreadsheet    *)
(* backed store, the local JSON file fallback, and the four operations     *)
(* read_messages / write_messages / append_message / delete_message_by_id  *)
(* as they are executed by Streamlit sessions.                             *)
(*                                                                         *)
(* Every call the code makes on the worksheet (get_all_values,             *)
(* get_all_records, clear, append_row) is one step: it is one request to   *)
(* the remote service, it may fail on its own, and the requests of other   *)
(* sessions may be served between two of them.  The local file is read or  *)
(* rewritten in one step.                                                  *)
(*                                                                         *)
(* Cell and field values are text that does not look like a number (the    *)
(* ids the application generates are uuid4 strings).                       *)
(***************************************************************************)
EXTENDS Naturals, Sequences, FiniteSets, TLC

(***************************************************************************)
(* Bounds of the model.                                                    *)
(***************************************************************************)
NumIds == 3
MaxLen == 2
MaxFaults == 2
MaxTries == 2

(***************************************************************************)
(* Values.                                                                 *)
(***************************************************************************)
Sessions == {1, 2}

IdPool == <<"a", "b", "c", "d", "e">>
Ids == {IdPool[i] : i \in 1..NumIds}

\* an id that is never generated and never stored
AbsentId == "does-not-exist"

\* the whitespace-only strings of the value universe: v.strip() is empty
BlankStrings == {"", " "}

Header == <<"ID", "Name", "Recipient", "Message", "Tone", "Timestamp">>

Range(q) == {q[i] : i \in DOMAIN q}

SeqsUpTo(S, n) == UNION {[1..k -> S] : k \in 0..n}

\* dict.get(k, d)
Get(m, k, d) == IF k \in DOMAIN m THEN m[k] ELSE d

\* the entry the compose form builds
Entry(i) ==
    [id |-> i, name |-> "Ann", recipient |-> "Bob", message |-> "Good luck!",
     tone |-> "calm", timestamp |-> "2024-01-01 00:00:00 UTC"]

\* a mapping that lacks fields, as a hand-edited file can hold
Partial(i) == [id |-> i, message |-> "Good luck!"]

\* a record has the six fields of the schema and an id that identifies it
WellFormed(m) ==
    /\ DOMAIN m = {"id", "name", "recipient", "message", "tone", "timestamp"}
    /\ m.id \notin BlankStrings
    /\ m.id # "ID"

WellFormedSeq(q) == \A i \in DOMAIN q : WellFormed(q[i])

(***************************************************************************)
(* init_google_sheets up to the worksheet: what the deployment provides    *)
(* and how the service answers.                                            *)
(***************************************************************************)
RequiredFields == {"type", "project_id", "private_key_id", "private_key", "client_email"}

FullBundle == [f \in RequiredFields |-> "v"]

\* GOOGLE_CREDENTIALS complete, or with one required field absent or empty
Bundles == {FullBundle}
              \cup {[FullBundle EXCEPT ![f] = x] : f \in RequiredFields, x \in {"absent", ""}}

Configs == [lib : BOOLEAN,
            creds : [present : BOOLEAN, fields : Bundles],
            auth : BOOLEAN,
            open : {"ok", "notfound", "error"},
            create : BOOLEAN,
            share : BOOLEAN]

\* line 153: the required fields that are not in the bundle or are empty
MissingFields(b) == {f \in RequiredFields : b[f] = "absent" \/ b[f] = ""}

\* a slip: the required fields are not looked at
EstablishesUnchecked(c) ==
    /\ c.lib
    /\ c.creds.present
    /\ c.auth
    /\ \/ c.open = "ok"
       \/ c.open = "notfound" /\ c.create /\ c.share

\* lines 144-181: a worksheet is reached
Establishes(c) ==
    /\ c.lib
    /\ c.creds.present
    /\ MissingFields(c.creds.fields) = {}
    /\ c.auth
    /\ \/ c.open = "ok"
       \/ c.open = "notfound" /\ c.create /\ c.share

(***************************************************************************)
(* The admin secret as configured, and what a user can type.               *)
(***************************************************************************)
NoSecret == [kind |-> "absent", value |-> ""]
Secret(v) == [kind |-> "str", value |-> v]
Secrets == {NoSecret, Secret(""), Secret("k1")}
Keys == {"", "k1", "k1 ", "k2"}

\* a slip: any non-empty input is accepted
IsAdminKeyValidAnyKey(sec, key) == key # ""

\* is_admin_key_valid(provided_key), with get_admin_secret() = sec
IsAdminKeyValid(sec, key) ==
    IF sec.kind = "absent" \/ sec.value = ""
    THEN FALSE
    ELSE key # "" /\ key = sec.value

(***************************************************************************)
(* JSON documents and results of a read: a tagged value.  Obj stands for a *)
(* non-empty object such as {"a": 1}, Scalar for a number.                 *)
(***************************************************************************)
Arr(q) == [kind |-> "array", data |-> q]
Absent == [kind |-> "absent", data |-> <<>>]
Garbage == [kind |-> "garbage", data |-> <<>>]
Obj == [kind |-> "object", data |-> <<>>]
Scalar == [kind |-> "scalar", data |-> <<>>]
NoRet == [kind |-> "none", data |-> <<>>]

(***************************************************************************)
(* read_messages, the worksheet branch.                                    *)
(***************************************************************************)
\* one record of get_all_records: the cells of a row keyed by the first row
ZipRecord(keys, row) ==
    [k \in Range(keys) |->
        row[CHOOSE i \in DOMAIN keys :
                /\ keys[i] = k
                /\ \A j \in DOMAIN keys : keys[j] = k => j <= i]]

GetAllRecords(rows) ==
    IF Len(rows) <= 1 THEN <<>>
    ELSE [i \in 1..(Len(rows) - 1) |-> ZipRecord(rows[1], rows[i + 1])]

\* a slip: the whitespace-only ids are not stripped before the test
KeepRecordUnstripped(record) ==
    /\ "ID" \in DOMAIN record
    /\ record["ID"] # ""
    /\ record["ID"] # "ID"

KeepRecord(record) ==
    /\ "ID" \in DOMAIN record
    /\ record["ID"] # ""
    /\ record["ID"] # "ID"
    /\ record["ID"] \notin BlankStrings

\* a slip of key case: the lower-case keys of the messages on the sheet's records
ToMessageLowerKeys(record) ==
    [id |-> Get(record, "id", ""),
     name |-> Get(record, "name", "Anonymous"),
     recipient |-> Get(record, "recipient", "Anyone"),
     message |-> Get(record, "message", ""),
     tone |-> Get(record, "tone", ""),
     timestamp |-> Get(record, "timestamp", "")]

ToMessage(record) ==
    [id |-> Get(record, "ID", ""),
     name |-> Get(record, "Name", "Anonymous"),
     recipient |-> Get(record, "Recipient", "Anyone"),
     message |-> Get(record, "Message", ""),
     tone |-> Get(record, "Tone", ""),
     timestamp |-> Get(record, "Timestamp", "")]

RECURSIVE MessagesOf(_)
MessagesOf(records) ==
    IF records = <<>> THEN <<>>
    ELSE IF KeepRecord(Head(records))
         THEN <<ToMessage(Head(records))>> \o MessagesOf(Tail(records))
         ELSE MessagesOf(Tail(records))

FromSheet(rows) == MessagesOf(GetAllRecords(rows))

(***************************************************************************)
(* read_messages, the local file branch.                                   *)
(***************************************************************************)
\* a slip: the parse failure and the missing file are not handled
FromFileUnguarded(f) == f

FromFile(f) == IF f.kind \in {"absent", "garbage"} THEN Arr(<<>>) ELSE f

(***************************************************************************)
(* write_messages: the row emitted for one message.                        *)
(***************************************************************************)
\* a slip of column order: recipient before name
ToRowSwapped(m) ==
    <<Get(m, "id", ""), Get(m, "recipient", "Anyone"), Get(m, "name", "Anonymous"),
      Get(m, "message", ""), Get(m, "tone", ""), Get(m, "timestamp", "")>>

ToRow(m) ==
    <<Get(m, "id", ""), Get(m, "name", "Anonymous"), Get(m, "recipient", "Anyone"),
      Get(m, "message", ""), Get(m, "tone", ""), Get(m, "timestamp", "")>>

\* a slip of order: the entry put first
AppendedFirst(list, entry) == <<entry>> \o list

\* append_message: msgs.append(entry)
Appended(list, entry) == Append(list, entry)

\* a slip of key case: the sheet's column name on a message
KeepOnDeleteWrongKey(m, msg_id) == IF "ID" \in DOMAIN m THEN m["ID"] # msg_id ELSE TRUE

\* delete_message_by_id: the list comprehension
KeepOnDelete(m, msg_id) == IF "id" \in DOMAIN m THEN m.id # msg_id ELSE TRUE

WithoutId(q, msg_id) == SelectSeq(q, LAMBDA m : KeepOnDelete(m, msg_id))


(***************************************************************************)
(* State.                                                                  *)
(***************************************************************************)
VARIABLES
    env,        \* the deployment: whether a connection to the sheet can be made
    sheet,      \* the rows of the worksheet, first row first
    file,       \* messages.json: Absent, Garbage, or the JSON document it holds
    handle,     \* st.session_state.google_worksheet of each session:
                \* "unset" (key absent), "none" (None) or "ws" (the worksheet)
    pc,         \* where each session's script is
    call,       \* the storage call a session is executing, or executed last
    msgs,       \* the local list a session is writing
    idx,        \* index of the next message of the row loop of write_messages
    ret,        \* what read_messages returned to the session last
    raised,     \* an exception left the last storage call of the session
    faults,     \* how many more calls the environment may fail
    attempts,   \* history: runs of init_google_sheets per session
    usedIds,    \* history: every id generated or stored so far
    lastMut,    \* history: the last modifying call of each session
    pre,        \* history: the collection when that call (a delete, a write) was made
    base,       \* history: the collection when the current run of appends began
    appended,   \* history: the entries of the current run of appends
    alive,      \* history: entries appended and not deleted since
    readSrc,    \* history: the store that served the last read ("sheet"/"file")
    wfInputs,   \* history: every list handed to write_messages was well-formed
    overlap,    \* history: a step of the session on the sheet fell between
                \* another session's look at (or clearing of) the sheet and
                \* that session's header row
    secret,     \* the deployment: st.secrets["ADMIN_KEY"], if configured
    admin,      \* st.session_state.admin_authenticated of each session
    tried,      \* history: failed Authenticate clicks of each session
    rejected    \* history: the compose form has shown its error to the session

vars == <<env, sheet, file, handle, pc, call, msgs, idx, ret, raised, faults,
          attempts, usedIds, lastMut, pre, base, appended, alive, readSrc,
          wfInputs, overlap, secret, admin, tried, rejected>>

history == <<lastMut, pre, base, appended>>

marks == <<alive, overlap>>

login == <<secret, admin, tried>>

seen == <<readSrc, wfInputs>>

NoCall == [op |-> "none", id |-> "", rec |-> Entry(""), list |-> <<>>]
ReadCall == [op |-> "read", id |-> "", rec |-> Entry(""), list |-> <<>>]
WriteCall(R) == [op |-> "write", id |-> "", rec |-> Entry(""), list |-> R]
AppendCall(e) == [op |-> "append", id |-> e.id, rec |-> e, list |-> <<>>]
DeleteCall(x) == [op |-> "delete", id |-> x, rec |-> Entry(""), list |-> <<>>]

\* what read_messages returns in the current state when no call fails
ReadAllNow(s) == IF handle[s] = "ws" THEN Arr(FromSheet(sheet)) ELSE FromFile(file)

\* the outcomes of a call that the environment may fail
Outcomes == IF faults > 0 THEN {TRUE, FALSE} ELSE {TRUE}

Spend(ok) == faults' = IF ok THEN faults ELSE faults - 1

IdsOfRows(rows) == {rows[i][1] : i \in DOMAIN rows} \cap Ids
IdsOfList(q) == {Get(q[i], "id", "") : i \in DOMAIN q} \cap Ids

(***************************************************************************)
(* Initial states: a session that has not run yet, over a worksheet and a  *)
(* file as earlier runs or other hands may have left them.                 *)
(***************************************************************************)
InitId == IdPool[1]

InitRowPool == {ToRow(Entry(InitId)), ToRow(Entry("")), ToRow(Entry(" ")), Header}
InitSheets == {<<>>} \cup {<<Header>> \o q : q \in SeqsUpTo(InitRowPool, MaxLen)}

InitFilePool == {Entry(InitId), Entry(""), Partial(InitId)}
InitFiles == {Absent, Garbage, Obj, Scalar}
                \cup {Arr(q) : q \in SeqsUpTo(InitFilePool, MaxLen)}

InitSession ==
    /\ handle = [s \in Sessions |-> "unset"]
    /\ pc = [s \in Sessions |-> "idle"]
    /\ call = [s \in Sessions |-> NoCall]
    /\ msgs = [s \in Sessions |-> <<>>]
    /\ idx = [s \in Sessions |-> 0]
    /\ ret = [s \in Sessions |-> NoRet]
    /\ raised = [s \in Sessions |-> FALSE]
    /\ attempts = [s \in Sessions |-> 0]
    /\ lastMut = [s \in Sessions |-> NoCall]
    /\ pre = [s \in Sessions |-> NoRet]
    /\ base = [s \in Sessions |-> NoRet]
    /\ appended = [s \in Sessions |-> <<>>]
    /\ alive = [s \in Sessions |-> {}]
    /\ readSrc = [s \in Sessions |-> "none"]
    /\ wfInputs = TRUE
    /\ overlap = [s \in Sessions |-> FALSE]
    /\ admin = [s \in Sessions |-> FALSE]
    /\ tried = [s \in Sessions |-> 0]
    /\ rejected = [s \in Sessions |-> FALSE]

\* the store a session without failing calls never touches is left plain
Init ==
    /\ env \in [connect : BOOLEAN]
    /\ sheet \in InitSheets
    /\ file \in InitFiles
    /\ IF env.connect THEN file = Absent ELSE sheet = <<Header>>
    /\ usedIds = IdsOfRows(sheet) \cup IdsOfList(file.data)
    /\ faults = 0
    /\ secret = NoSecret
    /\ InitSession

(***************************************************************************)
(* The script: lines 788-790 run at the top of every run of a session.     *)
(***************************************************************************)
\* a slip: "if not st.session_state.get('google_worksheet')"
NeedsInitWhenFalsy(h) == h # "ws"

\* line 789: 'google_worksheet' not in st.session_state
NeedsInit(h) == h = "unset"

RunStart(s) ==
    /\ pc[s] = "idle"
    /\ IF NeedsInit(handle[s])
       THEN /\ pc' = [pc EXCEPT ![s] = "connect"]
            /\ attempts' = [attempts EXCEPT ![s] = @ + 1]
       ELSE /\ pc' = [pc EXCEPT ![s] = "main"]
            /\ UNCHANGED attempts
    /\ UNCHANGED <<login, rejected, env, sheet, file, handle, call, msgs, idx, ret, raised, faults,
                   usedIds, history, seen, marks>>

RunEnd(s) ==
    /\ pc[s] = "main"
    /\ pc' = [pc EXCEPT ![s] = "idle"]
    /\ UNCHANGED <<login, rejected, env, sheet, file, handle, call, msgs, idx, ret, raised, faults,
                   attempts, usedIds, history, seen, marks>>

(***************************************************************************)
(* init_google_sheets.                                                     *)
(***************************************************************************)
\* lines 144-181: library, credentials, authorisation, open or create
Connect(s) ==
    /\ pc[s] = "connect"
    /\ \E ok \in (IF env.connect THEN Outcomes ELSE {FALSE}) :
          /\ faults' = IF env.connect /\ ~ok THEN faults - 1 ELSE faults
          /\ IF ok
             THEN /\ pc' = [pc EXCEPT ![s] = "init_check"]
                  /\ UNCHANGED handle
             ELSE /\ pc' = [pc EXCEPT ![s] = "main"]
                  /\ handle' = [handle EXCEPT ![s] = "none"]
    /\ UNCHANGED <<login, rejected, env, sheet, file, call, msgs, idx, ret, raised,
                   attempts, usedIds, history, seen, marks>>

\* line 184: worksheet.get_all_values()
InitCheck(s) ==
    /\ pc[s] = "init_check"
    /\ \E ok \in Outcomes :
          /\ Spend(ok)
          /\ IF ~ok
             THEN /\ pc' = [pc EXCEPT ![s] = "main"]
                  /\ handle' = [handle EXCEPT ![s] = "none"]
             ELSE IF sheet = <<>>
                  THEN /\ pc' = [pc EXCEPT ![s] = "init_header"]
                       /\ UNCHANGED handle
                  ELSE /\ pc' = [pc EXCEPT ![s] = "main"]
                       /\ handle' = [handle EXCEPT ![s] = "ws"]
    /\ UNCHANGED <<login, rejected, env, sheet, file, call, msgs, idx, ret, raised,
                   attempts, usedIds, history, seen, marks>>

\* another session has found the sheet empty (line 183) or has cleared it
\* (line 228) and has not finished emitting its header and rows
Interleaved(s) ==
    \E t \in Sessions \ {s} : pc[t] \in {"init_header", "write_header", "write_rows"}

\* line 185: worksheet.append_row(header)
InitHeader(s) ==
    /\ pc[s] = "init_header"
    /\ \E ok \in Outcomes :
          /\ Spend(ok)
          /\ sheet' = IF ok THEN Append(sheet, Header) ELSE sheet
          /\ handle' = [handle EXCEPT ![s] = IF ok THEN "ws" ELSE "none"]
    /\ pc' = [pc EXCEPT ![s] = "main"]
    /\ UNCHANGED <<login, rejected, env, file, call, msgs, idx, ret, raised,
                   attempts, usedIds, history, seen, alive>>
    /\ overlap' = IF Interleaved(s) THEN [u \in Sessions |-> TRUE] ELSE overlap


(***************************************************************************)
(* The four storage calls, as issued by the script of the sessions S (one  *)
(* session, or several sessions that are handed the same call).            *)
(***************************************************************************)
AtMain(S) == \A s \in S : pc[s] = "main" /\ handle[s] # "unset"

\* a slip: the worksheet is tried whatever the handle
WriteEntrySheetAlways(s) == "write_clear"

\* write_messages line 226: the worksheet when the handle is set
WriteEntry(s) == IF handle[s] = "ws" THEN "write_clear" ELSE "write_file"

\* read_messages()
CallRead(S) ==
    /\ AtMain(S)
    /\ call' = [s \in Sessions |-> IF s \in S THEN ReadCall ELSE call[s]]
    /\ pc' = [s \in Sessions |-> IF s \in S THEN "read" ELSE pc[s]]
    /\ ret' = [s \in Sessions |-> IF s \in S THEN NoRet ELSE ret[s]]
    /\ readSrc' = [s \in Sessions |-> IF s \in S THEN "none" ELSE readSrc[s]]
    /\ raised' = [s \in Sessions |-> IF s \in S THEN FALSE ELSE raised[s]]
    /\ UNCHANGED <<login, rejected, env, sheet, file, handle, msgs, idx, faults,
                   attempts, usedIds, history, wfInputs, marks>>

\* write_messages(R); track: the history variables pre, base, appended and
\* alive follow the call (they stay as they are under the specifications
\* whose claims do not read them)
CallWrite(S, R, track) ==
    /\ AtMain(S)
    /\ call' = [s \in Sessions |-> IF s \in S THEN WriteCall(R) ELSE call[s]]
    /\ msgs' = [s \in Sessions |-> IF s \in S THEN R ELSE msgs[s]]
    /\ pc' = [s \in Sessions |-> IF s \in S THEN WriteEntry(s) ELSE pc[s]]
    /\ ret' = [s \in Sessions |-> IF s \in S THEN NoRet ELSE ret[s]]
    /\ readSrc' = [s \in Sessions |-> IF s \in S THEN "none" ELSE readSrc[s]]
    /\ raised' = [s \in Sessions |-> IF s \in S THEN FALSE ELSE raised[s]]
    /\ usedIds' = usedIds \cup IdsOfList(R)
    /\ lastMut' = [s \in Sessions |-> IF s \in S THEN WriteCall(R) ELSE lastMut[s]]
    /\ pre' = [s \in Sessions |->
                 IF s \in S THEN (IF track THEN ReadAllNow(s) ELSE NoRet) ELSE pre[s]]
    /\ base' = [s \in Sessions |-> IF s \in S THEN NoRet ELSE base[s]]
    /\ appended' = [s \in Sessions |-> IF s \in S THEN <<>> ELSE appended[s]]
    /\ alive' = [s \in Sessions |-> IF s \in S THEN {} ELSE alive[s]]
    /\ wfInputs' = (wfInputs /\ WellFormedSeq(R))
    /\ UNCHANGED overlap
    /\ UNCHANGED <<login, rejected, env, sheet, file, handle, idx, faults, attempts>>

\* append_message(e), e the entry of lines 1056-1063 with its fresh uuid4
CallAppend(S, e, track) ==
    /\ AtMain(S)
    /\ e.id \in Ids \ usedIds
    /\ call' = [s \in Sessions |-> IF s \in S THEN AppendCall(e) ELSE call[s]]
    /\ pc' = [s \in Sessions |-> IF s \in S THEN "read" ELSE pc[s]]
    /\ ret' = [s \in Sessions |-> IF s \in S THEN NoRet ELSE ret[s]]
    /\ readSrc' = [s \in Sessions |-> IF s \in S THEN "none" ELSE readSrc[s]]
    /\ raised' = [s \in Sessions |-> IF s \in S THEN FALSE ELSE raised[s]]
    /\ usedIds' = usedIds \cup {e.id}
    /\ lastMut' = [s \in Sessions |-> IF s \in S THEN AppendCall(e) ELSE lastMut[s]]
    /\ pre' = [s \in Sessions |-> IF s \in S THEN NoRet ELSE pre[s]]
    /\ base' = [s \in Sessions |->
                  IF s \in S /\ track /\ appended[s] = <<>>
                  THEN ReadAllNow(s) ELSE base[s]]
    /\ appended' = [s \in Sessions |->
                      IF s \in S /\ track THEN Append(appended[s], e) ELSE appended[s]]
    /\ alive' = [s \in Sessions |->
                   IF s \in S /\ track THEN alive[s] \cup {e} ELSE alive[s]]
    /\ UNCHANGED overlap
    /\ UNCHANGED <<login, rejected, env, sheet, file, handle, msgs, idx, faults, attempts, wfInputs>>

\* delete_message_by_id(x)
CallDelete(S, x, track) ==
    /\ AtMain(S)
    /\ call' = [s \in Sessions |-> IF s \in S THEN DeleteCall(x) ELSE call[s]]
    /\ pc' = [s \in Sessions |-> IF s \in S THEN "read" ELSE pc[s]]
    /\ ret' = [s \in Sessions |-> IF s \in S THEN NoRet ELSE ret[s]]
    /\ readSrc' = [s \in Sessions |-> IF s \in S THEN "none" ELSE readSrc[s]]
    /\ raised' = [s \in Sessions |-> IF s \in S THEN FALSE ELSE raised[s]]
    /\ lastMut' = [s \in Sessions |-> IF s \in S THEN DeleteCall(x) ELSE lastMut[s]]
    /\ pre' = [s \in Sessions |->
                 IF s \in S THEN (IF track THEN ReadAllNow(s) ELSE NoRet) ELSE pre[s]]
    /\ base' = [s \in Sessions |-> IF s \in S THEN NoRet ELSE base[s]]
    /\ appended' = [s \in Sessions |-> IF s \in S THEN <<>> ELSE appended[s]]
    /\ alive' = [s \in Sessions |->
                   IF s \in S THEN {r \in alive[s] : r.id # x} ELSE alive[s]]
    /\ UNCHANGED overlap
    /\ UNCHANGED <<login, rejected, env, sheet, file, handle, msgs, idx, faults,
                   attempts, usedIds, wfInputs>>

(***************************************************************************)
(* read_messages and what its caller does with the result.                 *)
(***************************************************************************)
\* lines 252-254 and 258-260: the caller's use of the list it read.  A
\* document that is not a list has no append and no mappings to iterate.
AfterRead(s, result, src) ==
    CASE call[s].op = "append" ->
            IF result.kind = "array"
            THEN /\ msgs' = [msgs EXCEPT ![s] = Appended(result.data, call[s].rec)]
                 /\ pc' = [pc EXCEPT ![s] = WriteEntry(s)]
                 /\ UNCHANGED <<ret, raised, readSrc, alive>>
            ELSE /\ raised' = [raised EXCEPT ![s] = TRUE]
                 /\ pc' = [pc EXCEPT ![s] = "idle"]
                 /\ alive' = [alive EXCEPT ![s] = @ \ {call[s].rec}]
                 /\ UNCHANGED <<msgs, ret, readSrc>>
      [] call[s].op = "delete" ->
            IF result.kind = "array"
            THEN /\ msgs' = [msgs EXCEPT ![s] = WithoutId(result.data, call[s].id)]
                 /\ pc' = [pc EXCEPT ![s] = WriteEntry(s)]
                 /\ UNCHANGED <<ret, raised, readSrc, alive>>
            ELSE /\ raised' = [raised EXCEPT ![s] = TRUE]
                 /\ pc' = [pc EXCEPT ![s] = "idle"]
                 /\ UNCHANGED <<msgs, ret, readSrc, alive>>
      [] OTHER ->
            /\ ret' = [ret EXCEPT ![s] = result]
            /\ readSrc' = [readSrc EXCEPT ![s] = src]
            /\ pc' = [pc EXCEPT ![s] = "main"]
            /\ UNCHANGED <<msgs, raised, alive>>

\* a slip: the read of the sheet is tried again
RetrySheetRead == "read"

\* lines 212-215: "except Exception: pass" falls through to the local file
AfterFailedSheetRead == "read_file"

\* lines 197-213: worksheet.get_all_records() and the filter
ReadSheet(s) ==
    /\ pc[s] = "read"
    /\ handle[s] = "ws"
    /\ \E ok \in Outcomes :
          /\ Spend(ok)
          /\ IF ok
             THEN AfterRead(s, Arr(FromSheet(sheet)), "sheet")
             ELSE /\ pc' = [pc EXCEPT ![s] = AfterFailedSheetRead]
                  /\ UNCHANGED <<msgs, ret, raised, readSrc, alive>>
    /\ UNCHANGED <<login, rejected, env, sheet, file, handle, call, idx, attempts, usedIds, history,
                   wfInputs, overlap>>

\* a slip: a read that creates the file it does not find
FileCreatedOnRead(f) == IF f = Absent THEN Arr(<<>>) ELSE f

\* lines 216-219: os.path.exists and open(MESSAGES_FILE, "r") leave the file
FileAfterRead(f) == f

\* lines 215-221: the local file
ReadFile(s) ==
    /\ \/ pc[s] = "read" /\ handle[s] = "none"
       \/ pc[s] = "read_file"
    /\ AfterRead(s, FromFile(file), "file")
    /\ file' = FileAfterRead(file)
    /\ UNCHANGED <<login, rejected, env, sheet, handle, call, idx, faults, attempts, usedIds,
                   history, wfInputs, overlap>>

(***************************************************************************)
(* write_messages.                                                         *)
(***************************************************************************)
\* a slip: the sheet is not cleared before the rows are emitted
NotCleared(rows) == rows

\* worksheet.clear()
Cleared(rows) == <<>>

\* line 228: worksheet.clear()
WriteClear(s) ==
    /\ pc[s] = "write_clear"
    /\ \E ok \in Outcomes :
          /\ Spend(ok)
          /\ sheet' = IF ok THEN Cleared(sheet) ELSE sheet
          /\ pc' = [pc EXCEPT ![s] = IF ok THEN "write_header" ELSE "write_file"]
    /\ UNCHANGED <<login, rejected, env, file, handle, call, msgs, idx, ret, raised,
                   attempts, usedIds, history, seen, alive>>
    /\ overlap' = IF Interleaved(s) THEN [u \in Sessions |-> TRUE] ELSE overlap

\* line 229: worksheet.append_row(header)
WriteHeader(s) ==
    /\ pc[s] = "write_header"
    /\ \E ok \in Outcomes :
          /\ Spend(ok)
          /\ sheet' = IF ok THEN Append(sheet, Header) ELSE sheet
          /\ pc' = [pc EXCEPT ![s] =
                      IF ~ok THEN "write_file"
                      ELSE IF msgs[s] = <<>> THEN "main" ELSE "write_rows"]
          /\ idx' = [idx EXCEPT ![s] = IF ok /\ msgs[s] # <<>> THEN 1 ELSE 0]
    /\ UNCHANGED <<login, rejected, env, file, handle, call, msgs, ret, raised,
                   attempts, usedIds, history, seen, alive>>
    /\ overlap' = IF Interleaved(s) THEN [u \in Sessions |-> TRUE] ELSE overlap

\* lines 231-239: one worksheet.append_row per message
WriteRow(s) ==
    /\ pc[s] = "write_rows"
    /\ \E ok \in Outcomes :
          /\ Spend(ok)
          /\ sheet' = IF ok THEN Append(sheet, ToRow(msgs[s][idx[s]])) ELSE sheet
          /\ pc' = [pc EXCEPT ![s] =
                      IF ~ok THEN "write_file"
                      ELSE IF idx[s] = Len(msgs[s]) THEN "main" ELSE "write_rows"]
          /\ idx' = [idx EXCEPT ![s] =
                      IF ok /\ idx[s] < Len(msgs[s]) THEN idx[s] + 1 ELSE 0]
    /\ UNCHANGED <<login, rejected, env, file, handle, call, msgs, ret, raised,
                   attempts, usedIds, history, seen, alive>>
    /\ overlap' = IF Interleaved(s) THEN [u \in Sessions |-> TRUE] ELSE overlap

\* lines 244-248: open("w") and json.dump; a failure is swallowed, and it
\* leaves the file as it was (open failed) or cut short (dump failed)
WriteFile(s) ==
    /\ pc[s] = "write_file"
    /\ \E ok \in Outcomes :
          /\ Spend(ok)
          /\ IF ok THEN file' = Arr(msgs[s]) ELSE file' \in {file, Garbage}
    /\ pc' = [pc EXCEPT ![s] = "main"]
    /\ UNCHANGED <<login, rejected, env, sheet, handle, call, msgs, idx, ret, raised,
                   attempts, usedIds, history, seen, marks>>

(***************************************************************************)
(* The compose form.                                                       *)
(***************************************************************************)
\* what a visitor can leave in the message box
Bodies == {"", " ", "Good luck!", " Good luck! "}

\* message.strip()
Strip(b) == CASE b = " " -> ""
              [] b = " Good luck! " -> "Good luck!"
              [] OTHER -> b

\* a slip: the body is tested without being stripped
IsBlankUnstripped(b) == b = ""

\* line 1048: not message.strip()
IsBlank(b) == Strip(b) = ""

\* lines 1056-1063: the entry of a submission, i its uuid4
EntryOf(i, b) == [Entry(i) EXCEPT !.message = Strip(b)]

\* lines 1047-1072: "Send Your Wish" with the body b
Submit(s, b) ==
    /\ pc[s] = "main"
    /\ handle[s] # "unset"
    /\ IF IsBlank(b)
       THEN /\ rejected' = [rejected EXCEPT ![s] = TRUE]
            /\ UNCHANGED <<login, env, sheet, file, handle, pc, call, msgs, idx, ret,
                           raised, faults, attempts, usedIds, history, seen, marks>>
       ELSE \E i \in Ids : CallAppend({s}, EntryOf(i, b), FALSE)

(***************************************************************************)
(* The Admin Access panel of the sidebar.                                  *)
(***************************************************************************)
\* lines 968-974: the Authenticate button with admin_input = k; a success
\* ends in st.rerun()
Authenticate(s, k) ==
    /\ pc[s] = "main"
    /\ ~admin[s]
    /\ LET ok == k # "" /\ IsAdminKeyValid(secret, k)
       IN  /\ ok \/ tried[s] < MaxTries
           /\ admin' = [admin EXCEPT ![s] = ok]
           /\ tried' = [tried EXCEPT ![s] = IF ok THEN @ ELSE @ + 1]
           /\ pc' = [pc EXCEPT ![s] = IF ok THEN "idle" ELSE "main"]
    /\ UNCHANGED <<env, secret, rejected, sheet, file, handle, call, msgs, idx, ret,
                   raised, faults, attempts, usedIds, history, seen, marks>>

\* lines 993-995: the Logout Admin button
Logout(s) ==
    /\ pc[s] = "main"
    /\ admin[s]
    /\ admin' = [admin EXCEPT ![s] = FALSE]
    /\ pc' = [pc EXCEPT ![s] = "idle"]
    /\ UNCHANGED <<env, secret, tried, rejected, sheet, file, handle, call, msgs, idx,
                   ret, raised, faults, attempts, usedIds, history, seen, marks>>

(***************************************************************************)
(* Specifications.                                                         *)
(***************************************************************************)
\* the records handed to write_messages by a direct caller
WritePool == {Entry(IdPool[1]), Entry(IdPool[2]), Entry(""), Partial(InitId)}

Step(s) ==
    \/ RunStart(s)
    \/ RunEnd(s)
    \/ Connect(s)
    \/ InitCheck(s)
    \/ InitHeader(s)
    \/ ReadSheet(s)
    \/ ReadFile(s)
    \/ WriteClear(s)
    \/ WriteHeader(s)
    \/ WriteRow(s)
    \/ WriteFile(s)

Calls(S, track) ==
    \/ CallRead(S)
    \/ \E R \in SeqsUpTo(WritePool, MaxLen) : CallWrite(S, R, FALSE)
    \/ \E i \in Ids : CallAppend(S, Entry(i), track)
    \/ \E x \in Ids \cup {AbsentId} : CallDelete(S, x, track)

\* one session, no failing call
Next == Step(1) \/ Calls({1}, TRUE)

Spec == Init /\ [][Next]_vars

\* the steps of the storage calls alone
Serve(s) ==
    \/ ReadSheet(s)
    \/ ReadFile(s)
    \/ WriteClear(s)
    \/ WriteHeader(s)
    \/ WriteRow(s)
    \/ WriteFile(s)

(***************************************************************************)
(* Two sessions side by side, session 1 connected to the sheet and session *)
(* 2 on the local file, started from the same collection and handed the    *)
(* same calls; no call fails.                                              *)
(***************************************************************************)
\* rows as the application writes them, the id blank or not
PairRowPool == {ToRow(Entry(InitId)), ToRow(Entry(""))}

InitPair ==
    /\ env = [connect |-> TRUE]
    /\ sheet \in {<<Header>> \o q : q \in SeqsUpTo(PairRowPool, MaxLen)}
    /\ file = Arr(FromSheet(sheet))
    /\ usedIds = IdsOfRows(sheet)
    /\ faults = 0
    /\ secret = NoSecret
    /\ handle = [s \in Sessions |-> IF s = 1 THEN "ws" ELSE "none"]
    /\ pc = [s \in Sessions |-> "main"]
    /\ call = [s \in Sessions |-> NoCall]
    /\ msgs = [s \in Sessions |-> <<>>]
    /\ idx = [s \in Sessions |-> 0]
    /\ ret = [s \in Sessions |-> NoRet]
    /\ raised = [s \in Sessions |-> FALSE]
    /\ attempts = [s \in Sessions |-> 1]
    /\ lastMut = [s \in Sessions |-> NoCall]
    /\ pre = [s \in Sessions |-> NoRet]
    /\ base = [s \in Sessions |-> NoRet]
    /\ appended = [s \in Sessions |-> <<>>]
    /\ alive = [s \in Sessions |-> {}]
    /\ readSrc = [s \in Sessions |-> "none"]
    /\ wfInputs = TRUE
    /\ overlap = [s \in Sessions |-> FALSE]
    /\ admin = [s \in Sessions |-> FALSE]
    /\ tried = [s \in Sessions |-> 0]
    /\ rejected = [s \in Sessions |-> FALSE]

NextPair == Calls(Sessions, FALSE) \/ \E s \in Sessions : Serve(s)

SpecPair == InitPair /\ [][NextPair]_vars

(***************************************************************************)
(* One session whose calls to the worksheet and to the file may fail, up   *)
(* to MaxFaults times.                                                     *)
(***************************************************************************)
FaultSheets == {<<>>, <<Header>>, <<Header, ToRow(Entry(InitId))>>}

FaultFiles == {Absent, Garbage, Obj, Arr(<<>>), Arr(<<Entry(InitId)>>)}

InitFault ==
    /\ env = [connect |-> TRUE]
    /\ sheet \in FaultSheets
    /\ file \in FaultFiles
    /\ usedIds = IdsOfRows(sheet) \cup IdsOfList(file.data)
    /\ faults = MaxFaults
    /\ secret = NoSecret
    /\ InitSession

\* the records handed to write_messages by a direct caller: entries as the
\* form builds them
FaultWritePool == {Entry(IdPool[1]), Entry(IdPool[2])}

NextFault ==
    \/ Step(1)
    \/ CallRead({1})
    \/ \E R \in SeqsUpTo(FaultWritePool, MaxLen) : CallWrite({1}, R, TRUE)
    \/ \E i \in Ids : CallAppend({1}, Entry(i), TRUE)
    \/ \E x \in Ids : CallDelete({1}, x, TRUE)

SpecFault == InitFault /\ [][NextFault]_vars

\* the same session submitting, deleting and reading only, the history
\* variables of the calls left alone
NextFlaky ==
    \/ Step(1)
    \/ CallRead({1})
    \/ \E i \in Ids : CallAppend({1}, Entry(i), FALSE)
    \/ \E x \in Ids : CallDelete({1}, x, FALSE)

SpecFlaky == InitFault /\ [][NextFlaky]_vars

(***************************************************************************)
(* Two sessions on the same backend, each past its connection attempt,     *)
(* whose calls run side by side: Streamlit runs the script of each session *)
(* in a thread of its own and the storage calls take no lock.  No call     *)
(* fails.                                                                  *)
(***************************************************************************)
ConcStore == {<<>>, <<Entry(InitId)>>}

InitConc ==
    /\ env \in [connect : BOOLEAN]
    /\ \E q \in ConcStore :
          /\ sheet = IF env.connect THEN <<Header>> \o [i \in DOMAIN q |-> ToRow(q[i])]
                                    ELSE <<Header>>
          /\ file = IF env.connect THEN Absent ELSE Arr(q)
    /\ usedIds = IdsOfRows(sheet) \cup IdsOfList(file.data)
    /\ faults = 0
    /\ secret = NoSecret
    /\ handle = [s \in Sessions |-> IF env.connect THEN "ws" ELSE "none"]
    /\ pc = [s \in Sessions |-> "main"]
    /\ call = [s \in Sessions |-> NoCall]
    /\ msgs = [s \in Sessions |-> <<>>]
    /\ idx = [s \in Sessions |-> 0]
    /\ ret = [s \in Sessions |-> NoRet]
    /\ raised = [s \in Sessions |-> FALSE]
    /\ attempts = [s \in Sessions |-> 1]
    /\ lastMut = [s \in Sessions |-> NoCall]
    /\ pre = [s \in Sessions |-> NoRet]
    /\ base = [s \in Sessions |-> NoRet]
    /\ appended = [s \in Sessions |-> <<>>]
    /\ alive = [s \in Sessions |-> {}]
    /\ readSrc = [s \in Sessions |-> "none"]
    /\ wfInputs = TRUE
    /\ overlap = [s \in Sessions |-> FALSE]
    /\ admin = [s \in Sessions |-> FALSE]
    /\ tried = [s \in Sessions |-> 0]
    /\ rejected = [s \in Sessions |-> FALSE]

\* the session has made no modifying call yet: each of the two sessions
\* submits or deletes once, and reads as often as it likes
Fresh(s) == lastMut[s] = NoCall

NextConc ==
    \E s \in Sessions :
        \/ Serve(s)
        \/ CallRead({s})
        \/ Fresh(s) /\ \E i \in Ids : CallAppend({s}, Entry(i), FALSE)
        \/ Fresh(s) /\ \E x \in Ids : CallDelete({s}, x, FALSE)

SpecConc == InitConc /\ [][NextConc]_vars

(***************************************************************************)
(* Two sessions with different cached handles, each making its own calls:  *)
(* session 1 is connected to the sheet, the connection attempt of session  *)
(* 2 failed, and both stores hold the same collection at first.            *)
(***************************************************************************)
SpecMixed == InitPair /\ [][NextConc]_vars

(***************************************************************************)
(* The admin panel: two sessions of a deployment without credentials for   *)
(* the sheet, each running the script and clicking Authenticate or Logout. *)
(***************************************************************************)
InitAdmin ==
    /\ env = [connect |-> FALSE]
    /\ secret \in Secrets
    /\ sheet = <<Header>>
    /\ file = Absent
    /\ usedIds = {}
    /\ faults = 0
    /\ InitSession

NextAdmin ==
    \E s \in Sessions :
        \/ RunStart(s)
        \/ Connect(s)
        \/ RunEnd(s)
        \/ \E k \in Keys : Authenticate(s, k)
        \/ Logout(s)

SpecAdmin == InitAdmin /\ [][NextAdmin]_vars

(***************************************************************************)
(* The connection attempt of one session over every configuration of the  *)
(* deployment, the calls of the header check failing or not.               *)
(***************************************************************************)
InitSetup ==
    /\ env \in {[connect |-> Establishes(c), cfg |-> c] : c \in Configs}
    /\ sheet \in FaultSheets
    /\ env.cfg.open = "notfound" => sheet = <<>>
    /\ file = Absent
    /\ usedIds = IdsOfRows(sheet)
    /\ faults = MaxFaults
    /\ secret = NoSecret
    /\ InitSession

NextSetup ==
    \/ RunStart(1)
    \/ Connect(1)
    \/ InitCheck(1)
    \/ InitHeader(1)
    \/ RunEnd(1)

SpecSetup == InitSetup /\ [][NextSetup]_vars

(***************************************************************************)
(* Two sessions of a deployment with credentials for the sheet, each       *)
(* running the script from its start (the connection attempt with its      *)
(* header check, then one submission), their steps interleaved and their   *)
(* calls failing up to MaxFaults times.                                    *)
(***************************************************************************)
InitShared ==
    /\ env = [connect |-> TRUE]
    /\ sheet \in FaultSheets
    /\ file = Absent
    /\ usedIds = IdsOfRows(sheet)
    /\ faults = MaxFaults
    /\ secret = NoSecret
    /\ InitSession

NextShared ==
    \E s \in Sessions :
        \/ Step(s)
        \/ Fresh(s) /\ \E i \in Ids : CallAppend({s}, Entry(i), FALSE)

SpecShared == InitShared /\ [][NextShared]_vars

(***************************************************************************)
(* One session whose visitor reads the board and submits the compose form, *)
(* no call failing.                                                        *)
(***************************************************************************)
InitForm ==
    /\ env \in [connect : BOOLEAN]
    /\ sheet \in FaultSheets
    /\ file \in {Absent, Arr(<<>>), Arr(<<Entry(InitId)>>)}
    /\ IF env.connect THEN file = Absent ELSE sheet = <<Header>>
    /\ usedIds = IdsOfRows(sheet) \cup IdsOfList(file.data)
    /\ faults = 0
    /\ secret = NoSecret
    /\ InitSession

NextForm ==
    \/ Step(1)
    \/ CallRead({1})
    \/ \E b \in Bodies : Submit(1, b)

SpecForm == InitForm /\ [][NextForm]_vars

(***************************************************************************)
(* One session of a deployment that cannot connect: the steps of Spec that *)
(* such a session takes, over the files of Init.                           *)
(***************************************************************************)
InitLocal == Init /\ ~env.connect

NextLocal ==
    \/ RunStart(1)
    \/ Connect(1)
    \/ RunEnd(1)
    \/ ReadFile(1)
    \/ WriteFile(1)
    \/ Calls({1}, TRUE)

SpecLocal == InitLocal /\ [][NextLocal]_vars

(***************************************************************************)
(* One session that connects and reads, over the sheets of Init that hold  *)
(* a first row.                                                            *)
(***************************************************************************)
InitRows == Init /\ env.connect /\ sheet # <<>>

NextRows ==
    \/ RunStart(1)
    \/ Connect(1)
    \/ InitCheck(1)
    \/ RunEnd(1)
    \/ CallRead({1})
    \/ ReadSheet(1)

SpecRows == InitRows /\ [][NextRows]_vars


(***************************************************************************)
(* Claims on one session without failing calls (Spec).                     *)
(***************************************************************************)

\* C1: starting from a stored collection C, after a run of append calls with
\* fresh ids, readAll returns C followed by the appended records in the
\* order of the calls.
C1_AppendsInCallOrder ==
    \A s \in Sessions :
        (ret[s] # NoRet /\ appended[s] # <<>> /\ base[s].kind = "array")
            => ret[s] = Arr(base[s].data \o appended[s])

\* two appends after each other onto a non-empty collection of the sheet
C1_Witness ==
    /\ handle[1] = "ws"
    /\ ret[1].kind = "array"
    /\ Len(appended[1]) = 2
    /\ base[1].kind = "array"
    /\ base[1].data # <<>>
    /\ Len(ret[1].data) = Len(base[1].data) + 2

\* C2: deleteById(x) followed by readAll returns C without the records whose
\* id is x, the others in their order; C itself when x is not in C; and no
\* error is raised.
C2_DeleteIsFilter ==
    \A s \in Sessions :
        (lastMut[s].op = "delete" /\ pre[s].kind = "array")
            => /\ ~raised[s]
               /\ ret[s] # NoRet =>
                    LET C == pre[s].data
                        x == lastMut[s].id
                    IN  ret[s] = Arr(SelectSeq(C, LAMBDA m : ~(Get(m, "id", "") = x
                                                              /\ "id" \in DOMAIN m)))

\* a delete that removed a record and left another one
C2_Witness ==
    /\ lastMut[1].op = "delete"
    /\ pre[1].kind = "array"
    /\ ret[1].kind = "array"
    /\ ret[1].data # <<>>
    /\ Len(ret[1].data) < Len(pre[1].data)
    /\ \E i \in DOMAIN pre[1].data : Get(pre[1].data[i], "id", "") = lastMut[1].id

\* C3: writeAll(R) followed by readAll returns R, for well-formed R, on the
\* sheet and on the file.
C3_WriteReadRoundTrip ==
    \A s \in Sessions :
        (lastMut[s].op = "write" /\ WellFormedSeq(lastMut[s].list) /\ ret[s] # NoRet)
            => ret[s] = Arr(lastMut[s].list)

\* two different records written to the sheet and read back
C3_Witness ==
    /\ handle[1] = "ws"
    /\ lastMut[1].op = "write"
    /\ WellFormedSeq(lastMut[1].list)
    /\ Len(lastMut[1].list) = 2
    /\ lastMut[1].list[1] # lastMut[1].list[2]
    /\ ret[1] = Arr(lastMut[1].list)
    /\ readSrc[1] = "sheet"


(***************************************************************************)
(* Claims on the two backends side by side (SpecPair).                     *)
(***************************************************************************)

\* C4 as stated: for every sequence of calls, the session on the sheet and
\* the session on the file return equal results from every readAll.
C4_SameResultsOnBothBackends ==
    (ret[1] # NoRet /\ ret[2] # NoRet) => ret[1] = ret[2]

\* C4 as amended: the results are equal when every record handed to writeAll
\* has the six fields and an id that is neither blank nor the header's "ID".
C4_SameResultsForWellFormedInput ==
    (wfInputs /\ ret[1] # NoRet /\ ret[2] # NoRet) => ret[1] = ret[2]

\* both sessions have read a collection that writeAll, append and deleteById
\* have all acted on
C4_Witness ==
    /\ wfInputs
    /\ ret[1].kind = "array"
    /\ ret[1] = ret[2]
    /\ readSrc[1] = "sheet"
    /\ readSrc[2] = "file"
    /\ lastMut[1].op = "delete"
    /\ Len(ret[1].data) = 2
    /\ \E i \in DOMAIN ret[1].data : ret[1].data[i].id \notin IdsOfRows(<<ToRow(Entry(IdPool[1]))>>)


(***************************************************************************)
(* Claims on failures and on sessions running side by side.                *)
(***************************************************************************)

\* C5: none of readAll, writeAll, append and deleteById ever raises an error
\* to its caller, whatever the state of the worksheet and of the file.
C5_NeverRaises == \A s \in Sessions : ~raised[s]

\* C6: append is read-modify-write without a lock.  When two sessions have
\* each completed one append on the same backend, both from the same
\* snapshot of the collection, and their rewrites did not run into each
\* other, the store holds the list of one of the two writers: that writer's
\* snapshot and its record, without the record of the other.
C6_LaterWriterOverwrites ==
    LET Done(s) == /\ lastMut[s].op = "append"
                   /\ ~(call[s].op = "append" /\ pc[s] # "main")
        Snap(s) == SubSeq(msgs[s], 1, Len(msgs[s]) - 1)
        StoreNow == IF env.connect THEN FromSheet(sheet) ELSE FromFile(file).data
    IN  (Done(1) /\ Done(2) /\ Snap(1) = Snap(2) /\ ~overlap[1] /\ ~overlap[2])
            => /\ StoreNow \in {msgs[1], msgs[2]}
               /\ ~(lastMut[1].rec \in Range(StoreNow) /\ lastMut[2].rec \in Range(StoreNow))

\* on the sheet, both appends have completed and session 1 reads a
\* collection that holds the record of session 2 and not its own
C6_Witness ==
    /\ env.connect
    /\ lastMut[1].op = "append"
    /\ lastMut[2].op = "append"
    /\ pc[2] = "main"
    /\ call[1].op = "read"
    /\ readSrc[1] = "sheet"
    /\ ~overlap[1]
    /\ ~overlap[2]
    /\ ret[1] = Arr(msgs[2])
    /\ lastMut[2].rec \in Range(ret[1].data)
    /\ lastMut[1].rec \notin Range(ret[1].data)

\* C7: in every reachable state no two records of the stored collection
\* have the same id, appends carrying fresh ids, also when the appends and
\* deletes of several sessions interleave on the sheet.
C7_IdsUnique ==
    LET StoreNow == IF env.connect THEN FromSheet(sheet) ELSE FromFile(file).data
    IN  \A i, j \in DOMAIN StoreNow :
            i # j => Get(StoreNow[i], "id", "") # Get(StoreNow[j], "id", "")

\* C8: in a session whose handle stays set, every readAll result contains
\* every record appended and not deleted since, also when single calls to
\* the sheet fail.
C8_RecordsSurvive ==
    \A s \in Sessions :
        (handle[s] = "ws" /\ ret[s].kind = "array")
            => \A r \in alive[s] : r \in Range(ret[s].data)

\* C9: with one session, a readAll served by the sheet after writeAll(R)
\* yields R or the collection stored before the call, also when a call to
\* the sheet fails part-way through the rewrite.
C9_WriteAllAtomic ==
    \A s \in Sessions :
        (/\ lastMut[s].op = "write"
         /\ WellFormedSeq(lastMut[s].list)
         /\ handle[s] = "ws"
         /\ readSrc[s] = "sheet")
            => (ret[s] = Arr(lastMut[s].list) \/ ret[s] = pre[s])

\* C10: a session attempts the connection at most once; once the handle is
\* cached as None, no later step of the session attempts the connection,
\* touches the worksheet or changes the handle, and every read is served
\* by the local file.
C10_ConnectOncePerSession ==
    [][\A s \in Sessions :
          /\ attempts'[s] <= 1
          /\ handle[s] = "none" =>
                /\ handle'[s] = "none"
                /\ attempts'[s] = attempts[s]
                /\ pc'[s] \notin {"connect", "init_check", "init_header",
                                  "write_clear", "write_header", "write_rows"}
                /\ readSrc'[s] \in {"none", "file"}
                /\ sheet' = sheet]_vars

\* after the one failed attempt the session has run again, appended to the
\* file and read from it
C10_Witness ==
    /\ attempts[1] = 1
    /\ handle[1] = "none"
    /\ lastMut[1].op = "append"
    /\ call[1].op = "read"
    /\ pc[1] = "idle"
    /\ readSrc[1] = "file"
    /\ ret[1].kind = "array"
    /\ lastMut[1].rec \in Range(ret[1].data)


(***************************************************************************)
(* Claims on the fallback to the local file.                               *)
(***************************************************************************)

\* C11: in a session whose connection attempt failed, no step of a storage
\* call touches the sheet, every readAll result is what the local file
\* holds (empty when there is no file), and after writeAll, append and
\* deleteById the file holds what the call makes of the file's collection.
C11_FallbackIsLocalFile ==
    \A s \in Sessions :
        handle[s] = "none" =>
            /\ pc[s] \notin {"write_clear", "write_header", "write_rows"}
            /\ readSrc[s] \in {"none", "file"}
            /\ ret[s] # NoRet => ret[s] = FromFile(file)
            /\ (pc[s] \in {"main", "idle"} /\ lastMut[s].op = "write")
                    => file = Arr(lastMut[s].list)
            /\ (pc[s] \in {"main", "idle"} /\ lastMut[s].op = "append"
                    /\ base[s].kind = "array")
                    => file = Arr(base[s].data \o appended[s])
            /\ (pc[s] \in {"main", "idle"} /\ lastMut[s].op = "delete"
                    /\ pre[s].kind = "array")
                    => file = Arr(WithoutId(pre[s].data, lastMut[s].id))

\* after a failed connection attempt and with no file at first, the
\* session has appended twice and reads both records from the file
C11_Witness ==
    /\ handle[1] = "none"
    /\ base[1] = Arr(<<>>)
    /\ Len(appended[1]) = 2
    /\ readSrc[1] = "file"
    /\ ret[1] = Arr(appended[1])
    /\ file = ret[1]
    /\ sheet = <<Header>>

\* C12: a readAll served by the local file does not raise, returns the
\* empty sequence when the file is absent or does not parse, and leaves the
\* file as it found it.
C12_ReadOfBadFileIsEmpty ==
    [][\A s \in Sessions :
          (call[s].op = "read" /\ pc[s] \in {"read", "read_file"}
                /\ pc'[s] = "main" /\ readSrc'[s] = "file")
            => /\ file' = file
               /\ ~raised'[s]
               /\ file.kind \in {"absent", "garbage"} => ret'[s] = Arr(<<>>)]_vars

\* a read of a file that does not parse has returned the empty sequence
C12_Witness ==
    /\ call[1].op = "read"
    /\ readSrc[1] = "file"
    /\ file = Garbage
    /\ ret[1] = Arr(<<>>)
    /\ ~raised[1]


\* C13: whenever no storage call is in progress, readAll returns the same
\* sequence in every session, whichever backend the cached handle of each
\* session selects.
C13_OneCollection ==
    (\A s \in Sessions : pc[s] \in {"main", "idle"} /\ handle[s] # "unset")
        => ReadAllNow(1) = ReadAllNow(2)


(***************************************************************************)
(* Claims on the admin flag.                                               *)
(***************************************************************************)

\* C14: the admin flag of a session is false at session start and false
\* for ever when no non-empty secret is configured; it becomes true only by
\* an Authenticate whose input is non-empty and equal to the configured
\* non-empty secret, and such an Authenticate sets it whatever the number
\* of failed attempts before; it stays true across script runs and becomes
\* false again by Logout, and only by Logout.
C14_AdminFlag ==
    /\ [](\A s \in Sessions :
            /\ attempts[s] = 0 => ~admin[s]
            /\ admin[s] => (secret.kind = "str" /\ secret.value # ""))
    /\ [][\A s \in Sessions :
            /\ (~admin[s] /\ admin'[s])
                    => \E k \in Keys \ {""} : Authenticate(s, k) /\ secret = Secret(k)
            /\ (\E k \in Keys \ {""} : Authenticate(s, k) /\ secret = Secret(k))
                    => admin'[s]
            /\ (admin[s] /\ ~admin'[s]) <=> Logout(s)]_vars

\* after as many failed attempts as the bound allows, the session has
\* authenticated, and the flag is still set in the next script run
C14_Witness ==
    /\ admin[1]
    /\ tried[1] = MaxTries
    /\ pc[1] = "main"
    /\ secret = Secret("k1")
    /\ ~admin[2]
    /\ tried[2] > 0


(***************************************************************************)
(* Claims on single failing calls to the sheet.                            *)
(***************************************************************************)

\* C15: in a session whose handle is set, a failing sheet call during
\* readAll is not retried: the read goes on to the local file and returns
\* what the file holds (empty when it is absent or does not parse), raises
\* nothing, leaves the handle set, and the next read starts at the sheet.
C15_ReadFailureFallsToFile ==
    /\ [](\A s \in Sessions : pc[s] = "read_file" => handle[s] = "ws")
    /\ [][\A s \in Sessions :
            /\ (pc[s] = "read" /\ handle[s] = "ws" /\ faults' # faults)
                    => /\ pc'[s] = "read_file"
                       /\ handle'[s] = "ws"
                       /\ sheet' = sheet
                       /\ file' = file
            /\ (pc[s] = "read_file" /\ pc'[s] # "read_file")
                    => /\ faults' = faults
                       /\ handle'[s] = "ws"
                       /\ sheet' = sheet
                       /\ file' = file
                       /\ call[s].op = "read"
                            => /\ pc'[s] = "main"
                               /\ readSrc'[s] = "file"
                               /\ ~raised'[s]
                               /\ ret'[s] = (IF file.kind \in {"absent", "garbage"}
                                             THEN Arr(<<>>) ELSE file)
            /\ (pc[s] = "read" /\ handle[s] = "ws" /\ pc'[s] # "read")
                    => ReadSheet(s)]_vars

\* a connected session has read the file's collection, which differs from
\* the sheet's, after the sheet call failed
C15_Witness ==
    /\ handle[1] = "ws"
    /\ call[1].op = "read"
    /\ pc[1] = "main"
    /\ readSrc[1] = "file"
    /\ ret[1] = file
    /\ Len(ret[1].data) > 0
    /\ ret[1] # Arr(FromSheet(sheet))


\* C16: in a session whose handle is set, when a sheet call fails during
\* writeAll the sheet holds after the call what it held before the call.
C16_FailedWriteLeavesSheet ==
    \A s \in Sessions :
        (pc[s] = "write_file" /\ handle[s] = "ws" /\ call[s].op = "write")
            => Arr(FromSheet(sheet)) = pre[s]


(***************************************************************************)
(* Claims on the rows of the sheet.                                        *)
(***************************************************************************)

\* C17: a readAll served by a sheet whose first row is the header returns,
\* in sheet order, the records of exactly the later rows whose id is not
\* empty, not whitespace only and not the header value "ID"; no record it
\* returns has such an id.
C17_ReadSkipsBlankAndHeaderIds ==
    \A s \in Sessions :
        (readSrc[s] = "sheet" /\ sheet # <<>> /\ sheet[1] = Header)
            => LET kept == SelectSeq(Tail(sheet),
                                     LAMBDA r : r[1] \notin BlankStrings \cup {"ID"})
               IN  /\ ret[s].kind = "array"
                   /\ Len(ret[s].data) = Len(kept)
                   /\ \A i \in DOMAIN kept :
                          ret[s].data[i] = [id |-> kept[i][1], name |-> kept[i][2],
                                            recipient |-> kept[i][3],
                                            message |-> kept[i][4],
                                            tone |-> kept[i][5],
                                            timestamp |-> kept[i][6]]
                   /\ \A i \in DOMAIN ret[s].data :
                          ret[s].data[i].id \notin BlankStrings \cup {"ID"}

\* a read of a sheet that holds, after the header, a row with a
\* whitespace-only id and a row with a proper id has returned one record
C17_Witness ==
    /\ readSrc[1] = "sheet"
    /\ Len(sheet) = 3
    /\ \E i \in 2..3 : sheet[i][1] = " "
    /\ \E i \in 2..3 : sheet[i][1] \in Ids
    /\ Len(ret[1].data) = 1


\* C18: in every state between the storage calls of a single session that
\* is connected to the sheet, the first row of the sheet is the header.
C18_HeaderIsFirstRow ==
    \A s \in Sessions :
        (handle[s] = "ws" /\ pc[s] \in {"main", "idle"})
            => (sheet # <<>> /\ sheet[1] = Header)


(***************************************************************************)
(* Claims on the connection attempt.                                       *)
(***************************************************************************)

\* C19: the connection attempt never raises and ends with the worksheet or
\* with None; it ends with the worksheet only when the library is there,
\* the credential bundle is there with its five required fields non-empty,
\* the authorisation succeeded, the spreadsheet was opened or, not being
\* found, created and shared, and the header check went through; a
\* failing call of the header check ends it with None.
C19_HandleOnlyWhenAllStepsSucceed ==
    /\ [](\A s \in Sessions :
            /\ ~raised[s]
            /\ (attempts[s] > 0 /\ pc[s] \in {"main", "idle"})
                    => handle[s] \in {"ws", "none"}
            /\ handle[s] = "ws"
                    => /\ env.cfg.lib
                       /\ env.cfg.creds.present
                       /\ \A f \in RequiredFields :
                              env.cfg.creds.fields[f] \notin {"absent", ""}
                       /\ env.cfg.auth
                       /\ \/ env.cfg.open = "ok"
                          \/ /\ env.cfg.open = "notfound"
                             /\ env.cfg.create
                             /\ env.cfg.share
                       /\ sheet # <<>>
                       /\ sheet[1] = Header)
    /\ [][\A s \in Sessions :
            (pc[s] \in {"connect", "init_check", "init_header"} /\ faults' # faults)
                => (handle'[s] = "none" /\ pc'[s] = "main")]_vars

\* the spreadsheet was not found, was created and shared, and the header
\* check has put the header on the new sheet
C19_Witness ==
    /\ handle[1] = "ws"
    /\ env.cfg.open = "notfound"
    /\ sheet = <<Header>>
    /\ pc[1] = "main"


(***************************************************************************)
(* Claims on the compose form.                                             *)
(***************************************************************************)

\* C20: a submission whose body is empty or whitespace only shows the
\* error and issues no storage call, the stores staying as they are; a
\* submission with any other body issues one append, of an entry whose
\* message is the stripped body; so no append ever carries a blank message.
C20_BlankSubmissionRejected ==
    /\ [](\A s \in Sessions :
            /\ call[s].op = "append" => call[s].rec.message \notin BlankStrings
            /\ \A i \in DOMAIN sheet : sheet[i][4] \notin BlankStrings)
    /\ [][\A s \in Sessions : \A b \in Bodies :
            Submit(s, b) =>
                IF b \in BlankStrings
                THEN /\ rejected'[s]
                     /\ sheet' = sheet
                     /\ file' = file
                     /\ call' = call
                     /\ pc' = pc
                     /\ msgs' = msgs
                ELSE /\ call'[s].op = "append"
                     /\ call'[s].rec.message = "Good luck!"
                     /\ call'[s].rec.id \notin usedIds
                     /\ pc'[s] = "read"
                     /\ rejected' = rejected]_vars

\* the form has rejected a blank body, then a padded body was submitted,
\* stored stripped and read back
C20_Witness ==
    /\ rejected[1]
    /\ lastMut[1].op = "append"
    /\ call[1].op = "read"
    /\ ret[1].kind = "array"
    /\ lastMut[1].rec \in Range(ret[1].data)
    /\ lastMut[1].rec.message = "Good luck!"


(***************************************************************************)
(* C21.  read_messages changes nothing: every step of a read_messages call *)
(* (the sheet call, whether it succeeds or fails, and the file read),      *)
(* issued directly or from append_message and delete_message_by_id,        *)
(* leaves the sheet rows, the local file (its content and whether it       *)
(* exists) and the session's cached worksheet handle as they were.         *)
(***************************************************************************)
C21_ReadChangesNothing ==
    [][\A s \in Sessions :
          (pc[s] \in {"read", "read_file"} /\ pc'[s] # pc[s])
              => (sheet' = sheet /\ file' = file /\ handle'[s] = handle[s])]_vars

\* a read whose sheet call failed has answered from the missing file: the
\* sheet still has its rows, the file is still missing, the handle is kept
C21_Witness ==
    /\ call[1].op = "read"
    /\ pc[1] = "main"
    /\ readSrc[1] = "file"
    /\ ret[1] = Arr(<<>>)
    /\ handle[1] = "ws"
    /\ file = Absent
    /\ Len(sheet) = 2


(***************************************************************************)
(* C22.  The sheet holds more than one header row only after a step of one *)
(* session on the sheet fell between another session's look at (or         *)
(* clearing of) the sheet and that session's header row; as long as one of *)
(* the two sessions has not begun, the sheet holds at most one header row, *)
(* whether calls fail or not.                                              *)
(***************************************************************************)
HeaderRows(rows) == Cardinality({i \in DOMAIN rows : rows[i] = Header})

C22_SecondHeaderOnlyByInterleaving ==
    /\ HeaderRows(sheet) > 1 => \E s \in Sessions : overlap[s]
    /\ (\E s \in Sessions : attempts[s] = 0) => HeaderRows(sheet) <= 1

\* two sessions have interleaved their rewrites: both are back at rest and
\* the sheet holds a second header row above a data row
C22_Witness ==
    /\ \A s \in Sessions : pc[s] = "main" /\ handle[s] = "ws" /\ ~Fresh(s)
    /\ Len(sheet) >= 3
    /\ sheet[1] = Header
    /\ sheet[2] = Header
    /\ sheet[3] # Header

=============================================================================
